---- MODULE Spec2Model ----
(***************************************************************************)
(* Model of the modelhub gateway (src/app.py): one process, one asyncio    *)
(* event loop, the three route handlers health_check, generate_text and    *)
(* analyze_image, and the lazily created global image_classifier.          *)
(*                                                                         *)
(* Conventions                                                             *)
(*   - an Optional value is a sequence of length <= 1: << >> is None and   *)
(*     <<v>> is the value v;                                               *)
(*   - a text (str) is a sequence of one-character strings;                *)
(*   - the handlers are coroutines ("async def"): a handler runs on the    *)
(*     event loop thread from one await to the next, and the synchronous   *)
(*     calls it makes keep that thread until they return.  The variable    *)
(*     loop holds the request whose synchronous call occupies the thread.  *)
(***************************************************************************)
EXTENDS Integers, Sequences, FiniteSets, TLC

\* ---------------------------------------------------------------- bounds
\* Number of requests the process receives in one run.
NumReqs == 2

Reqs == 1..NumReqs

\* ------------------------------------------------------------- constants
\* config.py
DEFAULT_TEXT_MODEL == "deepseek-optimized"
IMAGE_MODEL == "marqo/nsfw-image-detection-384"
OLLAMA_TIMEOUT == 600
HEALTH_CHECK_TIMEOUT == 5

\* ------------------------------------------------------------------ text
None == << >>

Some(v) == <<v>>

Digits == <<"0", "1", "2", "3", "4", "5", "6", "7", "8", "9">>

\* str(n) for a natural number n
RECURSIVE IntText(_)
IntText(n) ==
    IF n < 10 THEN <<Digits[n + 1]>>
    ELSE IntText(n \div 10) \o <<Digits[(n % 10) + 1]>>

Upper == <<"A", "B", "C", "D", "E", "F", "G", "H", "I", "J", "K", "L", "M", "N", "O", "P", "Q", "R", "S", "T", "U", "V", "W", "X", "Y", "Z">>

LowerLetters == <<"a", "b", "c", "d", "e", "f", "g", "h", "i", "j", "k", "l", "m", "n", "o", "p", "q", "r", "s", "t", "u", "v", "w", "x", "y", "z">>

\* the lower-case letter of every upper-case letter
LowerOf ==
    [u \in {Upper[i] : i \in 1..Len(Upper)} |->
        LowerLetters[CHOOSE i \in 1..Len(Upper) : Upper[i] = u]]

\* str.lower() on one character
LowerChar(c) == IF c \in DOMAIN LowerOf THEN LowerOf[c] ELSE c

\* str.lower()
Lower(t) == [i \in 1..Len(t) |-> LowerChar(t[i])]

\* the Python test "s in t" on texts
Contains(t, s) ==
    \E i \in 0..(Len(t) - Len(s)) : SubSeq(t, i + 1, i + Len(s)) = s

\* t.startswith(p)
StartsWith(t, p) == Len(t) >= Len(p) /\ SubSeq(t, 1, Len(p)) = p

\* ----------------------------------------------------------- environment
\* Seconds the remote backend takes to answer a call (chosen by the
\* environment when the call is issued).
Latencies == {1, 601}

NoText == << >>

\* What the remote backend sends back when it answers in time, or the
\* transport failure httpx reports instead.
\*   kind     "response" | "error" | "timeout"
\*   status   HTTP status of the response
\*   raw      response.text
\*   json     "ok": the body is a JSON object holding "response";
\*            "nofield": a JSON object without it; "invalid": not JSON
\*   response the value of the "response" field
\*   cause    str(e) of the transport error
Answer(status, raw, json, response) ==
    [kind |-> "response", status |-> status, raw |-> raw, json |-> json,
     response |-> response, cause |-> NoText]

TransportError(cause) ==
    [kind |-> "error", status |-> 0, raw |-> NoText, json |-> "invalid",
     response |-> NoText, cause |-> cause]

TimeoutOutcome ==
    [kind |-> "timeout", status |-> 0, raw |-> NoText, json |-> "invalid",
     response |-> NoText, cause |-> NoText]

NoOutcome ==
    [kind |-> "none", status |-> 0, raw |-> NoText, json |-> "invalid",
     response |-> NoText, cause |-> NoText]

GenerateResults ==
    { Answer(200, <<"{", "h", "i", "}">>, "ok", <<"h", "i">>),
      Answer(200, <<"{", "}">>, "nofield", NoText),
      Answer(200, <<"o", "o", "p", "s">>, "invalid", NoText),
      Answer(404, <<"b", "o", "o", "m">>, "invalid", NoText),
      Answer(500, <<"b", "o", "o", "m">>, "invalid", NoText),
      TransportError(<<"r", "e", "f", "u", "s", "e", "d">>) }

ProbeResults ==
    { Answer(200, <<"{", "}">>, "nofield", NoText),
      Answer(500, <<"b", "o", "o", "m">>, "invalid", NoText),
      TransportError(<<"r", "e", "f", "u", "s", "e", "d">>) }

\* The "model" field of the JSON body of a generate-text request.
ModelFields ==
    { [given |-> FALSE, value |-> None],
      [given |-> TRUE, value |-> None],
      [given |-> TRUE, value |-> Some("llama3")] }

\* An upload: file.content_type, and whether PIL can open its bytes.
Upload(ct, decodable) == [ctype |-> ct, decodable |-> decodable]

Uploads ==
    { Upload(None, TRUE),
      Upload(Some(<<>>), FALSE),
      Upload(Some(<<"t", "e", "x", "t", "/", "p", "l", "a", "i", "n">>), TRUE),
      Upload(Some(<<"i", "m", "a", "g", "e", "/", "p", "n", "g">>), TRUE),
      Upload(Some(<<"i", "m", "a", "g", "e", "/", "p", "n", "g">>), FALSE) }

\* str(e) of the exception PIL raises for bytes that are no image
DecodeErrText == <<"c", "a", "n", "n", "o", "t", " ", "i", "d", "e", "n", "t", "i", "f", "y", " ", "i", "m", "a", "g", "e", " ", "f", "i", "l", "e">>

\* str(e) of the exceptions pipeline(...) and classifier(image) raise
LoadErrTexts == { <<"4", "0", "1", " ", "F", "o", "r", "b", "i", "d", "d", "e", "n">>, <<"U", "n", "a", "u", "t", "h", "o", "r", "i", "z", "e", "d", " ", "4", "0", "3">>, <<"n", "o", " ", "s", "u", "c", "h", " ", "m", "o", "d", "e", "l">> }

ClassifyErrTexts == { <<"R", "a", "t", "e", " ", "L", "i", "m", "i", "t", " ", "r", "e", "a", "c", "h", "e", "d">>, <<"4", "0", "3", " ", "F", "o", "r", "b", "i", "d", "d", "e", "n", ":", " ", "r", "a", "t", "e", " ", "l", "i", "m", "i", "t">> }

\* what classifier(image) returns
Predictions == << [label |-> "normal", score |-> 99] >>

NoPredictions == << >>

\* ----------------------------------------------------------------- state
VARIABLES
    image_classifier,  \* the global handle: None, or Some(id of the pipeline() call that built it)
    loads,             \* the pipeline() calls so far, in order: "running" | "ok" | "failed"
    loop,              \* None, or Some(r): request r's synchronous call occupies the event loop thread
    strDefined,        \* whether the installed HTTPException defines __str__
    rq                 \* the requests

vars == <<image_classifier, loads, loop, strDefined, rq>>

NoCall ==
    [target |-> "none", timeout |-> None, lat |-> 0, model |-> None, stream |-> FALSE]

NoResp ==
    [code |-> 0, detail |-> NoText, text |-> NoText, model |-> None,
     status |-> "", ollama_available |-> FALSE, image_model_loaded |-> FALSE,
     predictions |-> NoPredictions, endpoints |-> {}]

\* the exception a handler's except clause caught: its class and str(e)
Caught(type, str) == [type |-> type, str |-> str]

NoCaught == Caught("none", NoText)

\* A request slot before its request arrives.
\*   kind        "none" | "root" | "health" | "generate" | "analyze"
\*   pc          where the handler stands
\*   field       the "model" field of the request body (generate)
\*   model       request.model (generate)
\*   ctype, decodable   the upload (analyze)
\*   call        the outbound httpx call
\*   outcome     how that call ended
\*   calls       history: the outbound calls the request has issued
\*   caught      history: the exception its except clause caught
\*   loaded      the local image_model_loaded (health)
\*   attempt     the pipeline() call this request made (0: none)
\*   classifier  the local classifier (analyze)
\*   peers       history: the requests that were waiting in file.read() when
\*               this request called pipeline()
\*   resp        the response sent to the client
NoReq ==
    [kind |-> "none", pc |-> "idle", field |-> [given |-> FALSE, value |-> None],
     model |-> None, ctype |-> None,
     decodable |-> FALSE, call |-> NoCall, outcome |-> NoOutcome,
     calls |-> 0, caught |-> NoCaught, loaded |-> FALSE, attempt |-> 0, classifier |-> None, peers |-> {},
     resp |-> NoResp]

\* config.LAZY_LOAD_IMAGE_MODEL as the environment may set it
LazyFlags == BOOLEAN

\* The handle after import of app.py under the given value of the flag:
\* app.py never reads config.LAZY_LOAD_IMAGE_MODEL, the global starts None.
InitialHandle_Eager(lazy) == IF lazy THEN None ELSE Some(0)

InitialHandle(lazy) == None

Init ==
    /\ image_classifier \in {InitialHandle(lazy) : lazy \in LazyFlags}
    /\ loads = << >>
    /\ loop = None
    /\ strDefined \in BOOLEAN
    /\ rq = [r \in Reqs |-> NoReq]

\* ------------------------------------------------------------ event loop
\* The request whose handler occupies the event loop thread when request r
\* stands at pc: pipeline(...) and classifier(image) are synchronous calls
\* made inside the coroutine analyze_image, so the thread is theirs until
\* they return; at an await the thread is free.
Holder_Threaded(r, pc) == None

Holder(r, pc) == IF pc \in {"loading", "classifying"} THEN Some(r) ELSE None

\* ---------------------------------------------------------------- httpx
\* AsyncClient(timeout=...) of the two outbound calls
GenerateClientTimeout == Some(OLLAMA_TIMEOUT)

HealthClientTimeout == Some(HEALTH_CHECK_TIMEOUT)

\* How an awaited client.get/client.post ends: with the timeout exception
\* when the backend takes longer than the client's timeout, else with what
\* the backend or the transport produced.
Httpx(call, res) ==
    IF call.timeout # None /\ call.lat > call.timeout[1]
    THEN TimeoutOutcome
    ELSE res

\* ------------------------------------------------------------ exceptions
\* The classes an exception of the given type is an instance of.
Bases(type) ==
    CASE type = "TimeoutException" -> {"TimeoutException", "RequestError", "Exception"}
      [] type = "ConnectError" -> {"ConnectError", "RequestError", "Exception"}
      [] OTHER -> {type, "Exception"}

Raised(type, str) == [raised |-> type, str |-> str, resp |-> NoResp]

Returned(resp) == [raised |-> "none", str |-> NoText, resp |-> resp]

\* raise HTTPException(status_code=code, detail=detail), as the framework
\* answers the client
ErrorResp(code, detail) == [NoResp EXCEPT !.code = code, !.detail = detail]

\* str(e) of an HTTPException: "<status>: <detail>" where the class defines
\* __str__, and the empty str of an Exception built without positional
\* arguments where it does not.
StrHTTPException(defined, code, detail) ==
    IF defined THEN IntText(code) \o <<":", " ">> \o detail ELSE NoText

\* ------------------------------------------------------- generate_text
\* pydantic fills request.model with the default when the field is absent.
RequestModel(field) ==
    IF field.given THEN field.value ELSE Some(DEFAULT_TEXT_MODEL)

\* the model identifier put in the payload of the POST
PayloadModel(model) == model

\* the model identifier put in TextGenerationResponse
ResponseModel_Default(model) == Some(DEFAULT_TEXT_MODEL)

ResponseModel(model) == model

\* The body of the try block once client.post has ended with out.
GenerateTry(defined, model, out) ==
    CASE out.kind = "timeout" -> Raised("TimeoutException", <<"t", "i", "m", "e", "d", " ", "o", "u", "t">>)
      [] out.kind = "error" -> Raised("ConnectError", out.cause)
      [] OTHER ->
           IF out.status # 200
           THEN Raised("HTTPException",
                       StrHTTPException(defined, out.status,
                                        <<"O", "l", "l", "a", "m", "a", " ", "A", "P", "I", " ", "e", "r", "r", "o", "r", ":", " ">> \o out.raw))
           ELSE IF out.json = "invalid"
           THEN Raised("JSONDecodeError", <<"E", "x", "p", "e", "c", "t", "i", "n", "g", " ", "v", "a", "l", "u", "e">>)
           ELSE IF ResponseModel(model) = None
           THEN Raised("ValidationError", <<"1", " ", "v", "a", "l", "i", "d", "a", "t", "i", "o", "n", " ", "e", "r", "r", "o", "r", " ", "f", "o", "r", " ", "T", "e", "x", "t", "G", "e", "n", "e", "r", "a", "t", "i", "o", "n", "R", "e", "s", "p", "o", "n", "s", "e">>)
           ELSE Returned([NoResp EXCEPT
                    !.code = 200,
                    !.text = IF out.json = "ok" THEN out.response ELSE <<>>,
                    !.model = ResponseModel(model)])

\* The except clauses of generate_text, in source order.
GenerateHandlers_Reordered == << "RequestError", "TimeoutException", "Exception" >>

GenerateHandlers == << "TimeoutException", "RequestError", "Exception" >>

\* What the except clause for class cls raises for the caught exception e.
GenerateExcept(cls, e) ==
    CASE cls = "TimeoutException" -> ErrorResp(504, <<"R", "e", "q", "u", "e", "s", "t", " ", "t", "o", " ", "O", "l", "l", "a", "m", "a", " ", "t", "i", "m", "e", "d", " ", "o", "u", "t">>)
      [] cls = "RequestError" -> ErrorResp(503, <<"F", "a", "i", "l", "e", "d", " ", "t", "o", " ", "c", "o", "n", "n", "e", "c", "t", " ", "t", "o", " ", "O", "l", "l", "a", "m", "a", ":", " ">> \o e.str)
      [] OTHER -> ErrorResp(500, <<"I", "n", "t", "e", "r", "n", "a", "l", " ", "s", "e", "r", "v", "e", "r", " ", "e", "r", "r", "o", "r", ":", " ">> \o e.str)

\* The first except clause that matches the exception type.
Handler(handlers, type) ==
    handlers[CHOOSE i \in 1..Len(handlers) :
                /\ handlers[i] \in Bases(type)
                /\ \A j \in 1..(i - 1) : handlers[j] \notin Bases(type)]

\* The response of generate_text for request.model and the call's outcome.
GenerateText(defined, model, out) ==
    LET t == GenerateTry(defined, model, out)
    IN  IF t.raised = "none"
        THEN t.resp
        ELSE GenerateExcept(Handler(GenerateHandlers, t.raised), t)

\* The exception the except clauses of generate_text caught, if any.
GenerateCaught(defined, model, out) ==
    LET t == GenerateTry(defined, model, out)
    IN  IF t.raised = "none" THEN NoCaught ELSE Caught(t.raised, t.str)

\* Where a handler stands once its outbound call has ended: each path
\* through the try block and the except clauses returns or raises, none
\* goes back to the call.
AfterCall_Retry(out) == IF out.kind = "response" THEN "done" ELSE "received"

AfterCall(out) == "done"

\* ----------------------------------------------------------------- root
\* the keys and paths of "endpoints" in the answer of GET /
RootEndpoints ==
    { <<"health", <<"/", "h", "e", "a", "l", "t", "h">>>>,
      <<"text_generation", <<"/", "a", "p", "i", "/", "v", "1", "/", "g", "e", "n", "e", "r", "a", "t", "e", "/", "t", "e", "x", "t">>>>,
      <<"image_analysis", <<"/", "a", "p", "i", "/", "v", "1", "/", "a", "n", "a", "l", "y", "z", "e", "/", "i", "m", "a", "g", "e">>>> }

RootResponse == [NoResp EXCEPT !.code = 200, !.endpoints = RootEndpoints]

\* -------------------------------------------------------- health_check
\* image_model_loaded = image_classifier is not None
ImageModelLoaded_Always(handle) == TRUE

ImageModelLoaded(handle) == handle # None

\* ollama_available: False unless the probe answered, and then
\* response.status_code == 200 (every exception is caught and logged)
OllamaAvailable_AnyAnswer(out) == out.kind = "response"

OllamaAvailable(out) == out.kind = "response" /\ out.status = 200

\* the exception "except Exception" of health_check caught and logged
HealthCaught(out) ==
    CASE out.kind = "timeout" -> Caught("TimeoutException", <<"t", "i", "m", "e", "d", " ", "o", "u", "t">>)
      [] out.kind = "error" -> Caught("ConnectError", out.cause)
      [] OTHER -> NoCaught

HealthStatus(available) == IF available THEN "healthy" ELSE "degraded"

HealthCheck(loaded, out) ==
    [NoResp EXCEPT
        !.code = 200,
        !.status = HealthStatus(OllamaAvailable(out)),
        !.ollama_available = OllamaAvailable(out),
        !.image_model_loaded = loaded]

\* ------------------------------------------------------- analyze_image
\* file.content_type and file.content_type.startswith("image/")
ValidContentType_Lax(ct) == ct # None

ValidContentType(ct) ==
    /\ ct # None
    /\ ct[1] # <<>>
    /\ StartsWith(ct[1], <<"i", "m", "a", "g", "e", "/">>)

\* the detail chosen from str(e) in the except clause of analyze_image
AnalyzeDetail_RateLimitFirst(error_msg) ==
    IF Contains(Lower(error_msg), <<"r", "a", "t", "e", " ", "l", "i", "m", "i", "t">>)
    THEN <<"H", "u", "g", "g", "i", "n", "g", " ", "F", "a", "c", "e", " ", "A", "P", "I", " ", "r", "a", "t", "e", " ", "l", "i", "m", "i", "t", " ", "e", "x", "c", "e", "e", "d", "e", "d", ".", " ", "P", "l", "e", "a", "s", "e", " ", "t", "r", "y", " ", "a", "g", "a", "i", "n", " ", "l", "a", "t", "e", "r", ".">>
    ELSE IF Contains(error_msg, <<"4", "0", "1">>) \/ Contains(Lower(error_msg), <<"u", "n", "a", "u", "t", "h", "o", "r", "i", "z", "e", "d">>)
    THEN <<"H", "u", "g", "g", "i", "n", "g", " ", "F", "a", "c", "e", " ", "a", "u", "t", "h", "e", "n", "t", "i", "c", "a", "t", "i", "o", "n", " ", "f", "a", "i", "l", "e", "d", ".", " ", "C", "h", "e", "c", "k", " ", "H", "U", "G", "G", "I", "N", "G", "F", "A", "C", "E", "_", "T", "O", "K", "E", "N", " ", "o", "r", " ", "a", "p", "i", "_", "k", "e", "y", "s", ".", "t", "x", "t", " ", "f", "i", "l", "e", ".">>
    ELSE IF Contains(error_msg, <<"4", "0", "3">>) \/ Contains(Lower(error_msg), <<"f", "o", "r", "b", "i", "d", "d", "e", "n">>)
    THEN <<"A", "c", "c", "e", "s", "s", " ", "f", "o", "r", "b", "i", "d", "d", "e", "n", " ", "t", "o", " ", "H", "u", "g", "g", "i", "n", "g", " ", "F", "a", "c", "e", " ", "m", "o", "d", "e", "l", ".", " ", "C", "h", "e", "c", "k", " ", "m", "o", "d", "e", "l", " ", "p", "e", "r", "m", "i", "s", "s", "i", "o", "n", "s", " ", "o", "r", " ", "a", "u", "t", "h", "e", "n", "t", "i", "c", "a", "t", "i", "o", "n", ".">>
    ELSE <<"I", "m", "a", "g", "e", " ", "a", "n", "a", "l", "y", "s", "i", "s", " ", "f", "a", "i", "l", "e", "d", ":", " ">> \o error_msg

AnalyzeDetail(error_msg) ==
    IF Contains(error_msg, <<"4", "0", "1">>) \/ Contains(Lower(error_msg), <<"u", "n", "a", "u", "t", "h", "o", "r", "i", "z", "e", "d">>)
    THEN <<"H", "u", "g", "g", "i", "n", "g", " ", "F", "a", "c", "e", " ", "a", "u", "t", "h", "e", "n", "t", "i", "c", "a", "t", "i", "o", "n", " ", "f", "a", "i", "l", "e", "d", ".", " ", "C", "h", "e", "c", "k", " ", "H", "U", "G", "G", "I", "N", "G", "F", "A", "C", "E", "_", "T", "O", "K", "E", "N", " ", "o", "r", " ", "a", "p", "i", "_", "k", "e", "y", "s", ".", "t", "x", "t", " ", "f", "i", "l", "e", ".">>
    ELSE IF Contains(error_msg, <<"4", "0", "3">>) \/ Contains(Lower(error_msg), <<"f", "o", "r", "b", "i", "d", "d", "e", "n">>)
    THEN <<"A", "c", "c", "e", "s", "s", " ", "f", "o", "r", "b", "i", "d", "d", "e", "n", " ", "t", "o", " ", "H", "u", "g", "g", "i", "n", "g", " ", "F", "a", "c", "e", " ", "m", "o", "d", "e", "l", ".", " ", "C", "h", "e", "c", "k", " ", "m", "o", "d", "e", "l", " ", "p", "e", "r", "m", "i", "s", "s", "i", "o", "n", "s", " ", "o", "r", " ", "a", "u", "t", "h", "e", "n", "t", "i", "c", "a", "t", "i", "o", "n", ".">>
    ELSE IF Contains(Lower(error_msg), <<"r", "a", "t", "e", " ", "l", "i", "m", "i", "t">>)
    THEN <<"H", "u", "g", "g", "i", "n", "g", " ", "F", "a", "c", "e", " ", "A", "P", "I", " ", "r", "a", "t", "e", " ", "l", "i", "m", "i", "t", " ", "e", "x", "c", "e", "e", "d", "e", "d", ".", " ", "P", "l", "e", "a", "s", "e", " ", "t", "r", "y", " ", "a", "g", "a", "i", "n", " ", "l", "a", "t", "e", "r", ".">>
    ELSE <<"I", "m", "a", "g", "e", " ", "a", "n", "a", "l", "y", "s", "i", "s", " ", "f", "a", "i", "l", "e", "d", ":", " ">> \o error_msg

\* the HTTPException raised by the except clause of analyze_image
AnalyzeFailure_ByCategory(error_msg) ==
    ErrorResp(IF Contains(error_msg, <<"4", "0", "1">>) THEN 401
              ELSE IF Contains(error_msg, <<"4", "0", "3">>) THEN 403
              ELSE IF Contains(Lower(error_msg), <<"r", "a", "t", "e", " ", "l", "i", "m", "i", "t">>) THEN 429
              ELSE 500,
              AnalyzeDetail(error_msg))

AnalyzeFailure(error_msg) == ErrorResp(500, AnalyzeDetail(error_msg))

AnalyzeSuccess_Partial(predictions) ==
    [NoResp EXCEPT !.code = 200, !.predictions = predictions]

AnalyzeSuccess(predictions) ==
    [NoResp EXCEPT !.code = 200, !.predictions = predictions,
                   !.model = Some(IMAGE_MODEL)]

\* get_image_classifier: TRUE when the global is None and pipeline(...) is
\* therefore called.
MustLoad_Always(handle) == TRUE

MustLoad(handle) == handle = None

\* the value of the global after pipeline(...) ended: assigned only when
\* the call returned
HandleAfterLoad_Memoized(handle, ok, id) == Some(id)

HandleAfterLoad(handle, ok, id) == IF ok THEN Some(id) ELSE handle

\* Image.open(io.BytesIO(contents)) and the conversion to RGB: TRUE when
\* they return an image, FALSE when they raise
ImageOpen_Lazy(decodable) == TRUE

ImageOpen(decodable) == decodable

\* --------------------------------------------------------------- actions
Set(r, new) == rq' = [rq EXCEPT ![r] = new]

\* The framework receives the next request and parses it.  Slots are
\* filled in order.
ArriveHealth(r) ==
    /\ rq[r].pc = "idle"
    /\ \A q \in 1..(r - 1) : rq[q].pc # "idle"
    /\ Set(r, [rq[r] EXCEPT !.kind = "health", !.pc = "received"])
    /\ UNCHANGED <<image_classifier, loads, loop, strDefined>>

ArriveRoot(r) ==
    /\ rq[r].pc = "idle"
    /\ \A q \in 1..(r - 1) : rq[q].pc # "idle"
    /\ Set(r, [rq[r] EXCEPT !.kind = "root", !.pc = "received"])
    /\ UNCHANGED <<image_classifier, loads, loop, strDefined>>

\* root: no await, the answer is returned at once
Root(r) ==
    /\ rq[r].kind = "root" /\ rq[r].pc = "received"
    /\ loop = None
    /\ Set(r, [rq[r] EXCEPT !.pc = "done", !.resp = RootResponse])
    /\ loop' = Holder(r, "done")
    /\ UNCHANGED <<image_classifier, loads, strDefined>>

ArriveGenerate(r) ==
    /\ rq[r].pc = "idle"
    /\ \A q \in 1..(r - 1) : rq[q].pc # "idle"
    /\ \E f \in ModelFields :
          Set(r, [rq[r] EXCEPT !.kind = "generate", !.pc = "received",
                               !.field = f, !.model = RequestModel(f)])
    /\ UNCHANGED <<image_classifier, loads, loop, strDefined>>

ArriveAnalyze(r) ==
    /\ rq[r].pc = "idle"
    /\ \A q \in 1..(r - 1) : rq[q].pc # "idle"
    /\ \E u \in Uploads :
          Set(r, [rq[r] EXCEPT !.kind = "analyze", !.pc = "received",
                               !.ctype = u.ctype, !.decodable = u.decodable])
    /\ UNCHANGED <<image_classifier, loads, loop, strDefined>>

\* health_check up to "await client.get(...)"
HealthStart(r) ==
    /\ rq[r].kind = "health" /\ rq[r].pc = "received"
    /\ loop = None
    /\ \E lat \in Latencies :
          Set(r, [rq[r] EXCEPT
                    !.pc = "await_probe",
                    !.calls = @ + 1,
                    !.loaded = ImageModelLoaded(image_classifier),
                    !.call = [target |-> "tags", timeout |-> HealthClientTimeout,
                              lat |-> lat, model |-> None, stream |-> FALSE]])
    /\ loop' = Holder(r, "await_probe")
    /\ UNCHANGED <<image_classifier, loads, strDefined>>

\* health_check from the end of the probe to the response
HealthFinish(r) ==
    /\ rq[r].kind = "health" /\ rq[r].pc = "await_probe"
    /\ loop = None
    /\ \E res \in ProbeResults :
          LET out == Httpx(rq[r].call, res)
          IN  /\ Set(r, [rq[r] EXCEPT !.pc = AfterCall(out), !.outcome = out,
                                       !.caught = HealthCaught(out),
                                       !.resp = HealthCheck(rq[r].loaded, out)])
              /\ loop' = Holder(r, AfterCall(out))
    /\ UNCHANGED <<image_classifier, loads, strDefined>>

\* generate_text up to "await client.post(...)"
GenerateStart(r) ==
    /\ rq[r].kind = "generate" /\ rq[r].pc = "received"
    /\ loop = None
    /\ \E lat \in Latencies :
          Set(r, [rq[r] EXCEPT
                    !.pc = "await_post",
                    !.calls = @ + 1,
                    !.call = [target |-> "generate", timeout |-> GenerateClientTimeout,
                              lat |-> lat, model |-> PayloadModel(rq[r].model),
                              stream |-> FALSE]])
    /\ loop' = Holder(r, "await_post")
    /\ UNCHANGED <<image_classifier, loads, strDefined>>

\* generate_text from the end of the POST to the response
GenerateFinish(r) ==
    /\ rq[r].kind = "generate" /\ rq[r].pc = "await_post"
    /\ loop = None
    /\ \E res \in GenerateResults :
          LET out == Httpx(rq[r].call, res)
          IN  /\ Set(r, [rq[r] EXCEPT
                            !.pc = AfterCall(out), !.outcome = out,
                            !.caught = GenerateCaught(strDefined, rq[r].model, out),
                            !.resp = GenerateText(strDefined, rq[r].model, out)])
              /\ loop' = Holder(r, AfterCall(out))
    /\ UNCHANGED <<image_classifier, loads, strDefined>>

\* analyze_image up to "await file.read()": the content-type check
AnalyzeStart(r) ==
    /\ rq[r].kind = "analyze" /\ rq[r].pc = "received"
    /\ loop = None
    /\ LET pc == IF ValidContentType(rq[r].ctype) THEN "await_read" ELSE "done"
       IN  /\ Set(r, [rq[r] EXCEPT
                        !.pc = pc,
                        !.resp = IF pc = "done"
                                 THEN ErrorResp(400, <<"F", "i", "l", "e", " ", "m", "u", "s", "t", " ", "b", "e", " ", "a", "n", " ", "i", "m", "a", "g", "e">>)
                                 ELSE NoResp])
           /\ loop' = Holder(r, pc)
    /\ UNCHANGED <<image_classifier, loads, strDefined>>

\* analyze_image from the end of file.read(): Image.open, then
\* get_image_classifier() up to the call of pipeline(...) or, when the
\* handle exists, up to the call of classifier(image)
AnalyzeResume(r) ==
    /\ rq[r].kind = "analyze" /\ rq[r].pc = "await_read"
    /\ loop = None
    /\ IF ~ImageOpen(rq[r].decodable)
       THEN /\ Set(r, [rq[r] EXCEPT !.pc = "done",
                                    !.caught = Caught("UnidentifiedImageError", DecodeErrText),
                                    !.resp = AnalyzeFailure(DecodeErrText)])
            /\ loop' = Holder(r, "done")
            /\ UNCHANGED loads
       ELSE IF MustLoad(image_classifier)
       THEN /\ loads' = Append(loads, "running")
            /\ Set(r, [rq[r] EXCEPT
                         !.pc = "loading",
                         !.attempt = Len(loads) + 1,
                         !.peers = {q \in Reqs \ {r} : rq[q].pc = "await_read"}])
            /\ loop' = Holder(r, "loading")
       ELSE /\ Set(r, [rq[r] EXCEPT !.pc = "classifying",
                                    !.classifier = image_classifier])
            /\ loop' = Holder(r, "classifying")
            /\ UNCHANGED loads
    /\ UNCHANGED <<image_classifier, strDefined>>

\* pipeline(...) returns the handle: get_image_classifier stores and
\* returns it, and analyze_image calls classifier(image)
LoadOk(r) ==
    /\ rq[r].kind = "analyze" /\ rq[r].pc = "loading"
    /\ loop = Holder(r, "loading")
    /\ loads' = [loads EXCEPT ![rq[r].attempt] = "ok"]
    /\ image_classifier' = HandleAfterLoad(image_classifier, TRUE, rq[r].attempt)
    /\ Set(r, [rq[r] EXCEPT !.pc = "classifying",
                            !.classifier = image_classifier'])
    /\ loop' = Holder(r, "classifying")
    /\ UNCHANGED strDefined

\* pipeline(...) raises: the except clause of analyze_image answers
LoadFail(r) ==
    /\ rq[r].kind = "analyze" /\ rq[r].pc = "loading"
    /\ loop = Holder(r, "loading")
    /\ loads' = [loads EXCEPT ![rq[r].attempt] = "failed"]
    /\ image_classifier' = HandleAfterLoad(image_classifier, FALSE, rq[r].attempt)
    /\ \E msg \in LoadErrTexts :
          Set(r, [rq[r] EXCEPT !.pc = "done", !.caught = Caught("Exception", msg),
                               !.resp = AnalyzeFailure(msg)])
    /\ loop' = Holder(r, "done")
    /\ UNCHANGED strDefined

\* classifier(image) returns the predictions
ClassifyOk(r) ==
    /\ rq[r].kind = "analyze" /\ rq[r].pc = "classifying"
    /\ loop = Holder(r, "classifying")
    /\ Set(r, [rq[r] EXCEPT !.pc = "done", !.resp = AnalyzeSuccess(Predictions)])
    /\ loop' = Holder(r, "done")
    /\ UNCHANGED <<image_classifier, loads, strDefined>>

\* classifier(image) raises
ClassifyFail(r) ==
    /\ rq[r].kind = "analyze" /\ rq[r].pc = "classifying"
    /\ loop = Holder(r, "classifying")
    /\ \E msg \in ClassifyErrTexts :
          Set(r, [rq[r] EXCEPT !.pc = "done", !.caught = Caught("Exception", msg),
                               !.resp = AnalyzeFailure(msg)])
    /\ loop' = Holder(r, "done")
    /\ UNCHANGED <<image_classifier, loads, strDefined>>

Next ==
    \E r \in Reqs :
        \/ ArriveRoot(r)
        \/ Root(r)
        \/ ArriveHealth(r)
        \/ ArriveGenerate(r)
        \/ ArriveAnalyze(r)
        \/ HealthStart(r)
        \/ HealthFinish(r)
        \/ GenerateStart(r)
        \/ GenerateFinish(r)
        \/ AnalyzeStart(r)
        \/ AnalyzeResume(r)
        \/ LoadOk(r)
        \/ LoadFail(r)
        \/ ClassifyOk(r)
        \/ ClassifyFail(r)

Spec == Init /\ [][Next]_vars

\* The steps of request r's handler that the event loop and the blocking
\* calls take on their own: a coroutine whose await has ended is resumed
\* once the thread is free, and a synchronous call returns or raises.
\* FairSpec: the process does not stop while such a step can be taken.
Run(r) ==
    \/ Root(r)
    \/ HealthStart(r) \/ HealthFinish(r)
    \/ GenerateStart(r) \/ GenerateFinish(r)
    \/ AnalyzeStart(r) \/ AnalyzeResume(r)
    \/ LoadOk(r) \/ LoadFail(r)
    \/ ClassifyOk(r) \/ ClassifyFail(r)

FairSpec == Spec /\ WF_vars(\E r \in Reqs : Run(r))

\* ---------------------------------------------------------------- claims
Failed(r) == rq[r].attempt # 0 /\ loads[rq[r].attempt] = "failed"

Loaded(r) == rq[r].attempt # 0 /\ loads[rq[r].attempt] = "ok"

Classified(r) == rq[r].pc = "done" /\ rq[r].resp.code = 200 /\ rq[r].kind = "analyze"

\* C1: as long as no pipeline(...) call has failed, pipeline(...) has been
\* called at most once, and every request that holds a classifier holds
\* the handle of that one call, which had returned and is the global.
C1_SingleInitialization ==
    (\A i \in 1..Len(loads) : loads[i] # "failed") =>
        /\ Len(loads) <= 1
        /\ \A r \in Reqs :
              rq[r].classifier # None =>
                 /\ rq[r].classifier = Some(1)
                 /\ loads[1] = "ok"
                 /\ image_classifier = Some(1)

\* Two requests were in flight before the handle existed, one of them
\* built it, and both classified with it.
C1_Witness ==
    \E a, b \in Reqs :
        /\ a # b /\ Len(loads) = 1
        /\ Loaded(a) /\ b \in rq[a].peers
        /\ Classified(a) /\ Classified(b)
        /\ rq[a].classifier = Some(1) /\ rq[b].classifier = Some(1)

\* C2: when the pipeline(...) call of a request fails, no request that was
\* waiting with it before the handle existed makes a pipeline(...) call of
\* its own, and none of them succeeds.
C2_SingleFailedAttempt ==
    \A a \in Reqs :
        Failed(a) =>
            \A b \in rq[a].peers :
                /\ rq[b].attempt = 0
                /\ ~Classified(b)

NoneLoaded == \A i \in 1..Len(loads) : loads[i] # "ok"

\* C3: a failed pipeline(...) call leaves the global None (the global only
\* ever holds the handle of a call that returned), health reports
\* image_model_loaded = false while no call has returned, and the next
\* request that reaches get_image_classifier calls pipeline(...) again.
C3_FailedLoadNotMemoized ==
    [][\A r \in Reqs :
          /\ (rq[r].pc = "loading" /\ rq'[r].pc = "done") =>
                /\ image_classifier' = None
                /\ rq'[r].classifier = None
          /\ image_classifier' # None => loads'[image_classifier'[1]] = "ok"
          /\ NoneLoaded' =>
                /\ ~rq'[r].loaded
                /\ ~rq'[r].resp.image_model_loaded
          /\ ( /\ NoneLoaded /\ rq[r].pc = "await_read"
               /\ rq[r].decodable /\ rq'[r] # rq[r] ) =>
                /\ rq'[r].pc = "loading"
                /\ loads' = Append(loads, "running")]_vars

\* A pipeline(...) call failed, and a later request called it again,
\* got the handle and classified.
C3_Witness ==
    \E a, b \in Reqs :
        /\ Failed(a) /\ rq[a].resp.code = 500
        /\ Loaded(b) /\ rq[b].attempt > rq[a].attempt
        /\ Classified(b)
        /\ image_classifier = Some(rq[b].attempt)

\* C4: a generate-text request whose backend answered with a status other
\* than 200 ends with that status and a detail containing the backend's
\* body.
C4_BackendErrorPassThrough ==
    \A r \in Reqs :
        ( /\ rq[r].kind = "generate" /\ rq[r].pc = "done"
          /\ rq[r].outcome.kind = "response"
          /\ rq[r].outcome.status # 200 ) =>
            /\ rq[r].resp.code = rq[r].outcome.status
            /\ Contains(rq[r].resp.detail, rq[r].outcome.raw)

NonImage(ct) == ct = None \/ ~StartsWith(ct[1], <<"i", "m", "a", "g", "e", "/">>)

\* C5: an analyze-image request whose content-type is missing or does not
\* start with "image/" goes from received straight to the 400 response
\* "File must be an image", in a step that leaves the handle and the
\* pipeline(...) calls as they were; it never reads the upload, calls
\* pipeline(...) or holds a classifier.
C5_NonImageRejected ==
    [][\A r \in Reqs :
          (rq[r].kind = "analyze" /\ NonImage(rq[r].ctype)) =>
             /\ rq'[r].pc \in {"received", "done"}
             /\ rq'[r].attempt = 0 /\ rq'[r].classifier = None
             /\ rq'[r].pc = "done" => rq'[r].resp = ErrorResp(400, <<"F", "i", "l", "e", " ", "m", "u", "s", "t", " ", "b", "e", " ", "a", "n", " ", "i", "m", "a", "g", "e">>)
             /\ rq'[r] # rq[r] =>
                   /\ image_classifier' = image_classifier
                   /\ loads' = loads]_vars

C5_Witness ==
    \E r \in Reqs :
        /\ rq[r].kind = "analyze" /\ rq[r].ctype = Some(<<"t", "e", "x", "t", "/", "p", "l", "a", "i", "n">>)
        /\ rq[r].pc = "done" /\ rq[r].resp.code = 400
        /\ image_classifier = None /\ loads = << >>

\* C6: a step of health_check leaves the handle and the pipeline(...) calls
\* as they were, and the image_model_loaded it reports is true only if the
\* handle had been built by the pipeline(...) call of an analyze-image
\* request.
C6_HealthNeverLoads ==
    [][\A r \in Reqs :
          (rq[r].kind = "health" /\ rq'[r] # rq[r]) =>
             /\ image_classifier' = image_classifier
             /\ loads' = loads
             /\ (rq'[r].loaded \/ rq'[r].resp.image_model_loaded) =>
                   /\ image_classifier # None
                   /\ \E q \in Reqs : rq[q].kind = "analyze" /\ Loaded(q)]_vars

\* A health check that reports the model loaded after an analyze-image
\* request built the handle.
C6_Witness ==
    \E r, q \in Reqs :
        /\ rq[r].kind = "health" /\ rq[r].pc = "done"
        /\ rq[r].resp.image_model_loaded
        /\ rq[q].kind = "analyze" /\ Loaded(q)

\* C7: a health check answers 200 with status "healthy" exactly when its
\* probe was answered with status 200, and with "degraded" for every other
\* end of the probe, whatever image_model_loaded is.
C7_HealthyIffProbe200 ==
    \A r \in Reqs :
        (rq[r].kind = "health" /\ rq[r].pc = "done") =>
            /\ rq[r].resp.code = 200
            /\ rq[r].resp.status =
                  IF rq[r].outcome.kind = "response" /\ rq[r].outcome.status = 200
                  THEN "healthy" ELSE "degraded"
            /\ rq[r].resp.ollama_available = (rq[r].resp.status = "healthy")

\* A degraded answer with the model loaded next to a healthy one.
C7_Witness ==
    \E r, q \in Reqs :
        /\ rq[r].kind = "health" /\ rq[r].pc = "done"
        /\ rq[r].resp.status = "degraded" /\ rq[r].resp.image_model_loaded
        /\ rq[r].outcome.kind = "response"
        /\ rq[q].kind = "analyze"

\* C8: the model sent to the backend is the model field of the request
\* body when the body has one and DEFAULT_TEXT_MODEL when it has none, and
\* a generate-text request that succeeds returns the model that was sent.
C8_ModelEchoed ==
    \A r \in Reqs :
        rq[r].kind = "generate" =>
            /\ rq[r].call.target = "generate" =>
                  rq[r].call.model =
                     IF rq[r].field.given THEN rq[r].field.value
                     ELSE Some(DEFAULT_TEXT_MODEL)
            /\ (rq[r].pc = "done" /\ rq[r].resp.code = 200) =>
                  /\ rq[r].resp.model # None
                  /\ rq[r].resp.model = rq[r].call.model

\* A success with the default model next to one with the model asked for.
C8_Witness ==
    \E r, q \in Reqs :
        /\ rq[r].pc = "done" /\ rq[r].resp.code = 200 /\ ~rq[r].field.given
        /\ rq[r].resp.model = Some(DEFAULT_TEXT_MODEL)
        /\ rq[q].pc = "done" /\ rq[q].resp.code = 200 /\ rq[q].field.given
        /\ rq[q].resp.model = Some("llama3")

\* C9: every outbound call carries a timeout; a generate-text request
\* whose backend takes longer than OLLAMA_TIMEOUT is never stuck (while it
\* waits, its own last step can be taken as soon as the event loop thread
\* is free, and the request holding the thread can take a step), it has
\* no other step to take, and when it ends it ends with 504 "Request to
\* Ollama timed out".
C9_TimeoutYields504 ==
    \A r \in Reqs :
        /\ rq[r].call.target # "none" => rq[r].call.timeout # None
        /\ (rq[r].kind = "generate" /\ rq[r].call.lat > OLLAMA_TIMEOUT) =>
              /\ rq[r].pc \in {"await_post", "done"}
              /\ rq[r].pc = "await_post" =>
                    IF loop = None
                    THEN ENABLED GenerateFinish(r)
                    ELSE ENABLED Run(loop[1])
              /\ rq[r].pc = "done" =>
                    /\ rq[r].outcome.kind = "timeout"
                    /\ rq[r].resp = ErrorResp(504, <<"R", "e", "q", "u", "e", "s", "t", " ", "t", "o", " ", "O", "l", "l", "a", "m", "a", " ", "t", "i", "m", "e", "d", " ", "o", "u", "t">>)

\* A generate-text request and a health probe that both timed out.
C9_Witness ==
    \E r, q \in Reqs :
        /\ rq[r].kind = "generate" /\ rq[r].pc = "done"
        /\ rq[r].call.lat > OLLAMA_TIMEOUT /\ rq[r].outcome.kind = "timeout"
        /\ rq[r].resp.code = 504
        /\ rq[q].kind = "health" /\ rq[q].pc = "done"
        /\ rq[q].outcome.kind = "timeout"

\* C10: while a request is inside pipeline(...) or classifier(image),
\* another request's health probe or generate call can start, and one
\* that has ended can be taken up.
C10_NoBlocking ==
    \A a, b \in Reqs :
        (a # b /\ rq[a].pc \in {"loading", "classifying"}) =>
            /\ (rq[b].kind = "health" /\ rq[b].pc = "received") => ENABLED HealthStart(b)
            /\ (rq[b].kind = "generate" /\ rq[b].pc = "received") => ENABLED GenerateStart(b)
            /\ rq[b].pc = "await_probe" => ENABLED HealthFinish(b)
            /\ rq[b].pc = "await_post" => ENABLED GenerateFinish(b)

\* C11: an analyze-image request with an image content-type whose bytes
\* cannot be decoded ends with the 400 of an invalid input.
C11_DecodeFailureIsInvalidInput ==
    \A r \in Reqs :
        ( /\ rq[r].kind = "analyze" /\ rq[r].pc = "done"
          /\ ~NonImage(rq[r].ctype) /\ ~rq[r].decodable ) =>
            rq[r].resp.code = 400

\* the three fixed details of the model errors of analyze_image
IsModelErrorDetail(detail) ==
    \/ Contains(detail, <<"a", "u", "t", "h", "e", "n", "t", "i", "c", "a", "t", "i", "o", "n", " ", "f", "a", "i", "l", "e", "d">>)
    \/ Contains(detail, <<"A", "c", "c", "e", "s", "s", " ", "f", "o", "r", "b", "i", "d", "d", "e", "n">>)
    \/ Contains(detail, <<"r", "a", "t", "e", " ", "l", "i", "m", "i", "t", " ", "e", "x", "c", "e", "e", "d", "e", "d">>)

\* the request ended as an internal failure: in generate_text by the last
\* except clause for an exception that is no backend answer, in
\* analyze_image by the else branch of the error classification
InternalFailure(r) ==
    /\ rq[r].pc = "done" /\ rq[r].resp.code = 500
    /\ \/ rq[r].kind = "generate" /\ rq[r].caught.type \in {"JSONDecodeError", "ValidationError"}
       \/ rq[r].kind = "analyze" /\ ~IsModelErrorDetail(rq[r].resp.detail)

\* C12: the detail of an internal failure does not contain the text of
\* the exception that was caught.
C12_NoExceptionTextReturned ==
    \A r \in Reqs :
        (InternalFailure(r) /\ rq[r].caught.str # NoText) =>
            ~Contains(rq[r].resp.detail, rq[r].caught.str)

\* C13: once the global holds a handle no step changes it or calls
\* pipeline(...) again, a request that then reaches get_image_classifier
\* gets that handle, and a health check that then starts reports
\* image_model_loaded = true.
C13_HandleNeverReplaced ==
    [][image_classifier # None =>
          /\ image_classifier' = image_classifier
          /\ loads' = loads
          /\ \A r \in Reqs :
                /\ (rq[r].pc = "await_read" /\ rq'[r].pc = "classifying") =>
                      rq'[r].classifier = image_classifier
                /\ (rq[r].pc = "received" /\ rq'[r].pc = "await_probe") =>
                      rq'[r].loaded]_vars

\* Two requests classified with the handle the first one built, and a
\* single pipeline(...) call was made.
C13_Witness ==
    \E a, b \in Reqs :
        /\ Loaded(a) /\ Classified(a)
        /\ rq[b].attempt = 0 /\ Classified(b)
        /\ rq[b].classifier = image_classifier
        /\ Len(loads) = 1

\* C14: whatever LAZY_LOAD_IMAGE_MODEL is, until an analyze-image request
\* has called pipeline(...) from get_image_classifier the global is None
\* and every health check reports image_model_loaded = false.
C14_AbsentUntilFirstUse ==
    (\A q \in Reqs : rq[q].attempt = 0) =>
        /\ image_classifier = None
        /\ loads = << >>
        /\ \A r \in Reqs : ~rq[r].loaded /\ ~rq[r].resp.image_model_loaded

\* A health check answered "not loaded" while an analyze-image request
\* had been validated but had not reached get_image_classifier.
C14_Witness ==
    \E r, q \in Reqs :
        /\ rq[r].kind = "health" /\ rq[r].pc = "done"
        /\ ~rq[r].resp.image_model_loaded
        /\ rq[q].kind = "analyze" /\ rq[q].pc = "await_read"
        /\ image_classifier = None

\* C15: a generate-text request issues at most one outbound call and a
\* health check exactly one probe, however the call ends; the other
\* handlers issue none.
C15_SingleAttempt ==
    \A r \in Reqs :
        /\ rq[r].calls <= 1
        /\ rq[r].kind \in {"generate", "health"} =>
              rq[r].calls = IF rq[r].pc \in {"idle", "received"} THEN 0 ELSE 1
        /\ rq[r].kind \notin {"generate", "health"} => rq[r].calls = 0

\* A generate-text request that timed out and a probe that failed, each
\* after one call.
C15_Witness ==
    \E r, q \in Reqs :
        /\ rq[r].kind = "generate" /\ rq[r].pc = "done"
        /\ rq[r].outcome.kind = "timeout" /\ rq[r].calls = 1
        /\ rq[q].kind = "health" /\ rq[q].pc = "done"
        /\ rq[q].outcome.kind = "error" /\ rq[q].calls = 1

\* the steps received -> validated -> dispatched -> ended of a handler
Stages ==
    { <<"idle", "received">>,
      <<"received", "await_probe">>, <<"received", "await_post">>,
      <<"received", "await_read">>, <<"received", "done">>,
      <<"await_probe", "done">>, <<"await_post", "done">>,
      <<"await_read", "loading">>, <<"await_read", "classifying">>,
      <<"await_read", "done">>,
      <<"loading", "classifying">>, <<"loading", "done">>,
      <<"classifying", "done">> }

\* a result with every field of its response model set, and no detail
FullResult(kind, resp) ==
    /\ resp.code = 200 /\ resp.detail = NoText
    /\ CASE kind = "generate" -> resp.model # None
          [] kind = "analyze" -> resp.model = Some(IMAGE_MODEL) /\ resp.predictions # NoPredictions
          [] kind = "health" -> resp.status \in {"healthy", "degraded"}
          [] OTHER -> resp.endpoints # {}

\* an error: a status of the 4xx/5xx range, a detail, no field of a result
TypedError(resp) ==
    /\ resp.code >= 400 /\ resp.detail # NoText
    /\ resp = ErrorResp(resp.code, resp.detail)

\* C16: a handler only moves forward through its stages; a call to the
\* backend, to pipeline(...) or to the classifier is made only by a
\* request that passed validation; a request that has ended stays as it
\* is, and it ended with a full result or with one error, never both.
C16_RequestStateMachine ==
    [][\A r \in Reqs :
          /\ rq'[r].pc # rq[r].pc => <<rq[r].pc, rq'[r].pc>> \in Stages
          /\ rq[r].pc = "done" => rq'[r] = rq[r]
          /\ rq'[r].pc # "done" => rq'[r].resp = NoResp
          /\ ( \/ rq'[r].calls > 0 \/ rq'[r].attempt # 0
               \/ rq'[r].classifier # None
               \/ rq'[r].pc \in {"await_read", "loading", "classifying"} ) =>
                (rq'[r].kind = "analyze" => ~NonImage(rq'[r].ctype))
          /\ rq'[r].pc = "done" =>
                /\ FullResult(rq'[r].kind, rq'[r].resp) \/ TypedError(rq'[r].resp)
                /\ ~(FullResult(rq'[r].kind, rq'[r].resp) /\ TypedError(rq'[r].resp))]_vars

\* A request that ended with a result next to one that ended with an error.
C16_Witness ==
    \E r, q \in Reqs :
        /\ Classified(r) /\ FullResult("analyze", rq[r].resp)
        /\ rq[q].kind = "generate" /\ rq[q].pc = "done"
        /\ rq[q].resp.code = 503 /\ TypedError(rq[q].resp)

\* C17: the endpoints map of GET / lists health, text_generation and
\* image_analysis and also holds a "dashboard" and a "meta" entry.
C17_RootListsDashboardAndMeta ==
    \A r \in Reqs :
        (rq[r].kind = "root" /\ rq[r].pc = "done") =>
            {"health", "text_generation", "image_analysis", "dashboard", "meta"}
               \subseteq {e[1] : e \in rq[r].resp.endpoints}

\* the category the claim gives a failure text
Category(msg) ==
    IF Contains(msg, <<"4", "0", "1">>) \/ Contains(Lower(msg), <<"u", "n", "a", "u", "t", "h", "o", "r", "i", "z", "e", "d">>)
    THEN "ModelAuthFailed"
    ELSE IF Contains(msg, <<"4", "0", "3">>) \/ Contains(Lower(msg), <<"f", "o", "r", "b", "i", "d", "d", "e", "n">>)
    THEN "ModelAccessForbidden"
    ELSE IF Contains(Lower(msg), <<"r", "a", "t", "e", " ", "l", "i", "m", "i", "t">>)
    THEN "ModelRateLimited"
    ELSE "InternalFailure"

AnalyzeFailed(r) ==
    rq[r].kind = "analyze" /\ rq[r].pc = "done" /\ rq[r].caught.type # "none"

\* C18: a failure of analyze_image after the content-type check is
\* answered by the category of its text, tested in the order 401 or
\* unauthorized, 403 or forbidden, rate limit, else internal failure; the
\* answers of two failures of the same model category are equal and those
\* of different categories differ.
C18_FailureCategories ==
    LET failures ==
            { [text |-> rq[r].caught.str,
               cat |-> Category(rq[r].caught.str),
               detail |-> rq[r].resp.detail] :
                 r \in {q \in Reqs : AnalyzeFailed(q)} }
    IN  /\ \A f \in failures :
              CASE f.cat = "ModelAuthFailed" ->
                     Contains(f.detail, <<"a", "u", "t", "h", "e", "n", "t", "i", "c", "a", "t", "i", "o", "n", " ", "f", "a", "i", "l", "e", "d">>)
                [] f.cat = "ModelAccessForbidden" ->
                     Contains(f.detail, <<"A", "c", "c", "e", "s", "s", " ", "f", "o", "r", "b", "i", "d", "d", "e", "n">>)
                [] f.cat = "ModelRateLimited" ->
                     Contains(f.detail, <<"r", "a", "t", "e", " ", "l", "i", "m", "i", "t", " ", "e", "x", "c", "e", "e", "d", "e", "d">>)
                [] OTHER ->
                     f.detail = <<"I", "m", "a", "g", "e", " ", "a", "n", "a", "l", "y", "s", "i", "s", " ", "f", "a", "i", "l", "e", "d", ":", " ">> \o f.text
        /\ \A f, g \in failures :
              IF f.cat = g.cat
              THEN f.cat # "InternalFailure" => f.detail = g.detail
              ELSE f.detail # g.detail

\* A text holding "403", "Forbidden" and "rate limit" answered as access
\* forbidden next to one answered as rate limited.
C18_Witness ==
    \E a, b \in Reqs :
        /\ AnalyzeFailed(a) /\ rq[a].caught.str = <<"4", "0", "3", " ", "F", "o", "r", "b", "i", "d", "d", "e", "n", ":", " ", "r", "a", "t", "e", " ", "l", "i", "m", "i", "t">>
        /\ Contains(rq[a].resp.detail, <<"A", "c", "c", "e", "s", "s", " ", "f", "o", "r", "b", "i", "d", "d", "e", "n">>)
        /\ AnalyzeFailed(b) /\ rq[b].caught.str = <<"R", "a", "t", "e", " ", "L", "i", "m", "i", "t", " ", "r", "e", "a", "c", "h", "e", "d">>
        /\ Contains(rq[b].resp.detail, <<"r", "a", "t", "e", " ", "l", "i", "m", "i", "t", " ", "e", "x", "c", "e", "e", "d", "e", "d">>)

\* C19: a generate-text request whose call failed in the transport ends
\* with 503 and the cause in the detail, one that timed out with 504, and
\* one whose backend answered with a failure status with that status: none
\* of the three is answered as another.
C19_GenerateFailuresDistinct ==
    \A r \in Reqs :
        (rq[r].kind = "generate" /\ rq[r].pc = "done") =>
            /\ rq[r].outcome.kind = "error" =>
                  /\ rq[r].resp.code = 503
                  /\ Contains(rq[r].resp.detail, rq[r].outcome.cause)
            /\ rq[r].outcome.kind = "timeout" => rq[r].resp.code = 504
            /\ (rq[r].outcome.kind = "response" /\ rq[r].outcome.status # 200) =>
                  /\ rq[r].resp.code = rq[r].outcome.status
                  /\ rq[r].caught.type = "none" \/ ~StartsWith(rq[r].resp.detail, <<"I", "n", "t", "e", "r", "n", "a", "l", " ", "s", "e", "r", "v", "e", "r", " ", "e", "r", "r", "o", "r">>)

\* C20: an analyze-image request whose pipeline(...) call failed is
\* answered differently from every request whose classifier(image) call
\* failed, and not with the answer of an internal failure.
C20_ModelLoadFailedDistinct ==
    \A a \in Reqs :
        (Failed(a) /\ rq[a].pc = "done") =>
            /\ ~StartsWith(rq[a].resp.detail, <<"I", "m", "a", "g", "e", " ", "a", "n", "a", "l", "y", "s", "i", "s", " ", "f", "a", "i", "l", "e", "d", ":", " ">>)
            /\ \A b \in Reqs :
                  (AnalyzeFailed(b) /\ ~Failed(b)) => rq[b].resp # rq[a].resp

C22_FailuresAfterValidationAre500 ==
    \A r \in Reqs :
        (rq[r].kind = "analyze" /\ rq[r].pc = "done") =>
            /\ rq[r].resp.code \in {200, 400, 500}
            /\ rq[r].resp.code = 400 <=> NonImage(rq[r].ctype)
            /\ AnalyzeFailed(r) =>
                  /\ ~NonImage(rq[r].ctype)
                  /\ rq[r].resp = ErrorResp(500, rq[r].resp.detail)
            /\ (~NonImage(rq[r].ctype) /\ ~AnalyzeFailed(r)) =>
                  rq[r].resp.code = 200

\* An authentication failure of pipeline(...) and a rate limit of
\* classifier(image), both answered 500 with different details.
C22_Witness ==
    \E a, b \in Reqs :
        /\ AnalyzeFailed(a) /\ rq[a].caught.str = <<"4", "0", "1", " ", "F", "o", "r", "b", "i", "d", "d", "e", "n">>
        /\ AnalyzeFailed(b) /\ rq[b].caught.str = <<"R", "a", "t", "e", " ", "L", "i", "m", "i", "t", " ", "r", "e", "a", "c", "h", "e", "d">>
        /\ rq[a].resp.code = 500 /\ rq[b].resp.code = 500
        /\ rq[a].resp.detail # rq[b].resp.detail
====
